---- MODULE Spec2Model ----
(***************************************************************************)
(* The DDL compiler of aerich (src/aerich/ddl/__init__.py, class BaseDDL). *)
(* Every method of BaseDDL is one action.  The caller's objects (the model *)
(* meta, the field descriptor, the referenced-table descriptor) and the    *)
(* compiler instance are state, so that a write to any of them is visible. *)
(*                                                                         *)
(* Python values that may be None or a str are records [t, v]: t is the    *)
(* Python type, v the text as a sequence of tokens ("" is << >>), so that  *)
(* "SET" + default is sequence concatenation.  A statement is the template *)
(* together with the keyword arguments str.format received.                *)
(***************************************************************************)
EXTENDS Naturals, Sequences, FiniteSets, TLC

VARIABLES self, model, field_describe, reference_table_describe, index,
          op, args, result, consulted, issued

vars == <<self, model, field_describe, reference_table_describe, index,
          op, args, result, consulted, issued>>

----------------------------------------------------------------------------
(* Python values *)

None == [t |-> "NoneType", v |-> << >>]

S(s) == [t |-> "str", v |-> IF s = "" THEN << >> ELSE <<s>>]

Text(tokens) == [t |-> "str", v |-> tokens]

Enum(member) == [t |-> "Enum", v |-> <<member>>]

Function(name) == [t |-> "function", v |-> <<name>>]

\* bool(x) for the values above
Truthy(x) == x # None /\ ~(x.t = "str" /\ x.v = << >>)

\* a or b
Or(a, b) == IF Truthy(a) THEN a ELSE b

\* dict.get(key, default)
Get(d, key, dflt) == IF key \in DOMAIN d THEN d[key] ELSE dflt

\* dict.get(key) of a dialect -> SQL type mapping: the str, or None
GetType(db_field_types, key) ==
    IF key \in DOMAIN db_field_types THEN S(db_field_types[key]) ELSE None

\* what str.format writes for a value: None is written "None"
Format(x) == IF x = None THEN <<"None">> ELSE x.v

----------------------------------------------------------------------------
(* Class attributes of BaseDDL *)

DIALECT == "sql"

SQLITE_DIALECT == "sqlite"

DROP_TABLE_TEMPLATE == "DROP TABLE IF EXISTS \"{table_name}\""

ADD_COLUMN_TEMPLATE == "ALTER TABLE \"{table_name}\" ADD {column}"

DROP_COLUMN_TEMPLATE == "ALTER TABLE \"{table_name}\" DROP COLUMN \"{column_name}\""

ALTER_DEFAULT_TEMPLATE == "ALTER TABLE \"{table_name}\" ALTER COLUMN \"{column}\" {default}"

RENAME_COLUMN_TEMPLATE == "ALTER TABLE \"{table_name}\" RENAME COLUMN \"{old_column_name}\" TO \"{new_column_name}\""

ADD_INDEX_TEMPLATE == "ALTER TABLE \"{table_name}\" ADD {unique}INDEX \"{index_name}\" ({column_names})"

DROP_INDEX_TEMPLATE == "ALTER TABLE \"{table_name}\" DROP INDEX \"{index_name}\""

ADD_FK_TEMPLATE == "ALTER TABLE \"{table_name}\" ADD CONSTRAINT \"{fk_name}\" FOREIGN KEY (\"{db_column}\") REFERENCES \"{table}\" (\"{field}\") ON DELETE {on_delete}"

DROP_FK_TEMPLATE == "ALTER TABLE \"{table_name}\" DROP FOREIGN KEY \"{fk_name}\""

M2M_TABLE_TEMPLATE == "CREATE TABLE \"{table_name}\" (\n    \"{backward_key}\" {backward_type} NOT NULL REFERENCES \"{backward_table}\" (\"{backward_field}\") ON DELETE CASCADE,\n    \"{forward_key}\" {forward_type} NOT NULL REFERENCES \"{forward_table}\" (\"{forward_field}\") ON DELETE {on_delete}\n){extra}{comment}"

MODIFY_COLUMN_TEMPLATE == "ALTER TABLE \"{table_name}\" MODIFY COLUMN {column}"

CHANGE_COLUMN_TEMPLATE == "ALTER TABLE \"{table_name}\" CHANGE {old_column_name} {new_column_name} {new_column_type}"

RENAME_TABLE_TEMPLATE == "ALTER TABLE \"{old_table_name}\" RENAME TO \"{new_table_name}\""

----------------------------------------------------------------------------
(* Outcome of a call: the exception that left it ("" when it returned),    *)
(* the value returned, the Introspector methods it consulted, and the      *)
(* field descriptor as the call leaves it.                                 *)

NoException == ""

NotImplementedError == "NotImplementedError"

Return(value, methods, fd) ==
    [raised |-> NoException, value |-> value, consulted |-> methods, field_describe |-> fd]

Raise(exception, methods, fd) ==
    [raised |-> exception, value |-> None, consulted |-> methods, field_describe |-> fd]

----------------------------------------------------------------------------
(* The Schema Introspector (tortoise's schema generator), as the compiler  *)
(* sees it: deterministic renderers.  sg.unsupported says which of the two *)
(* default renderers signals that a literal default is unsupported.        *)

\* _escape_default_value(default)
escape_default_value(sg, default) ==
    IF sg.unsupported = "escape"
    THEN [raised |-> NotImplementedError, value |-> None]
    ELSE [raised |-> NoException, value |-> Text(<<"'">> \o Format(default) \o <<"'">>)]

\* _column_default_generator(table, column, default, auto_now_add, auto_now)
column_default_generator(sg, table, column, default, auto_now_add, auto_now) ==
    IF sg.unsupported = "render"
    THEN [raised |-> NotImplementedError, value |-> None]
    ELSE [raised |-> NoException,
          value |-> Text(IF auto_now_add
                         THEN <<" DEFAULT CURRENT_TIMESTAMP">>
                         ELSE IF auto_now
                              THEN <<" DEFAULT ">> \o default.v \o <<" ON UPDATE CURRENT_TIMESTAMP">>
                              ELSE <<" DEFAULT ">> \o default.v)]

\* _column_comment_generator(table, column, comment)
column_comment_generator(table, column, comment) ==
    Text(<<" COMMENT '">> \o Format(comment) \o <<"'">>)

\* _table_comment_generator(table, comment)
table_comment_generator(table, comment) ==
    Text(<<" COMMENT='">> \o Format(comment) \o <<"'">>)

\* _table_generate_extra(table)
table_generate_extra(table) == S("")

\* _create_string(...): the column fragment, every argument written by str.format
create_string(db_column, field_type, nullable, unique, comment, is_primary_key, default) ==
    [db_column |-> db_column, field_type |-> Format(field_type),
     nullable |-> Format(nullable), unique |-> Format(unique), comment |-> Format(comment), is_primary_key |-> is_primary_key,
     default |-> Format(default)]

\* _generate_index_name(prefix, model, field_names)
generate_index_name(prefix, model_, field_names) ==
    <<prefix, model_.db_table>> \o field_names

\* schema_generator._generate_fk_name(from_table, from_field, to_table, to_field)
sg_generate_fk_name(from_table, from_field, to_table, to_field) ==
    <<"fk", from_table, from_field, to_table, to_field>>

\* quote(identifier)
quote(f) == <<"\"", f, "\"">>

\* _get_table_sql(model, safe)["table_creation_string"]
get_table_sql(model_) == <<"CREATE TABLE IF NOT EXISTS", model_.db_table, ";">>

\* str.rstrip(chars) on a token sequence
RECURSIVE rstrip(_, _)
rstrip(s, ch) ==
    IF s # << >> /\ s[Len(s)] = ch THEN rstrip(SubSeq(s, 1, Len(s) - 1), ch) ELSE s

\* model._meta.pk.get_for_dialect(dialect, "SQL_TYPE")
get_for_dialect(model_, dialect) ==
    IF dialect \in DOMAIN model_.pk THEN model_.pk[dialect] ELSE model_.pk[""]

----------------------------------------------------------------------------
(* aerich.utils.is_default_function: the default is an opaque              *)
(* callable/generator marker rather than a literal.                        *)

is_default_function(default) == default.t = "function"

\* isinstance(default, Enum)
IsEnum(default) == default.t = "Enum"

\* default.value of an Enum member (tests' enums: a str-valued member and a
\* member whose value is None)
EnumValue(default) ==
    IF default.v = <<"Status.NONE">> THEN None ELSE S("active")

\* (variant: JSONField left out of the list)
NonLiteralFieldTypes_NoJSON == {"UUIDField", "TextField"}

\* the field types of the list in _get_default
NonLiteralFieldTypes == {"UUIDField", "TextField", "JSONField"}

----------------------------------------------------------------------------
(* BaseDDL: the methods, as functions of the compiler instance and the     *)
(* caller's objects.                                                       *)

\* template.format(**kwargs)
Statement(template, kwargs) == [template |-> template, kwargs |-> kwargs]

\* the try block of _get_default: escape the literal, then render it; a
\* NotImplementedError of either leaves the block
render_default(self_, db_table, db_column, default, auto_now_add, auto_now) ==
    LET escaped == escape_default_value(self_.schema_generator, default)
    IN  IF escaped.raised # NoException
        THEN [raised |-> escaped.raised, value |-> None,
              consulted |-> {"_escape_default_value"}]
        ELSE LET rendered == column_default_generator(self_.schema_generator, db_table,
                                 db_column, escaped.value, auto_now_add, auto_now)
             IN  [raised |-> rendered.raised, value |-> rendered.value,
                  consulted |-> {"_escape_default_value", "_column_default_generator"}]

\* (variant: no except clause, the error leaves _get_default)
except_nothing(r) == r

\* except NotImplementedError: default = ""
except_NotImplementedError(r) ==
    IF r.raised = NotImplementedError
    THEN [raised |-> NoException, value |-> S(""), consulted |-> r.consulted]
    ELSE r

\* (variant: the Enum member is kept as it is)
substituted_default_no_enum(fd) == Get(fd, "default", None)

\* default = field_describe.get("default"); an Enum member is replaced by its value
substituted_default(fd) ==
    LET default == Get(fd, "default", None)
    IN  IF IsEnum(default) THEN EnumValue(default) ELSE default

\* (variant: the resolved default is stored in the descriptor)
describe_default_written(fd) ==
    IF "default" \in DOMAIN fd
    THEN [fd EXCEPT !["default"] = IF IsEnum(fd["default"]) THEN EnumValue(fd["default"])
                                                            ELSE fd["default"]]
    ELSE fd

\* what _get_default leaves in the caller's descriptor: it only rebinds its
\* local name `default`
describe_after_get_default(fd) == fd

get_default(self_, model_, fd) ==
    LET db_table     == model_.db_table
        default      == substituted_default(fd)
        db_column    == Get(fd, "db_column", None)
        auto_now_add == Get(fd, "auto_now_add", FALSE)
        auto_now     == Get(fd, "auto_now", FALSE)
        after        == describe_after_get_default(fd)
    IN  IF default # None \/ auto_now_add
        THEN IF \/ Get(fd, "field_type", None) \in NonLiteralFieldTypes
                \/ is_default_function(default)
             THEN Return(S(""), {}, after)
             ELSE LET r == except_NotImplementedError(
                               render_default(self_, db_table, db_column, default,
                                              auto_now_add, auto_now))
                  IN  IF r.raised # NoException
                      THEN Raise(r.raised, r.consulted, after)
                      ELSE Return(r.value, r.consulted, after)
        ELSE Return(None, {}, after)

\* (variant: the fallback entry wins over the dialect's)
column_field_type_fallback_first(self_, db_field_types) ==
    IF "" \in DOMAIN db_field_types
    THEN S(db_field_types[""])
    ELSE GetType(db_field_types, self_.DIALECT)

\* db_field_types.get(self.DIALECT, db_field_types.get(""))
column_field_type(self_, db_field_types) ==
    IF self_.DIALECT \in DOMAIN db_field_types
    THEN S(db_field_types[self_.DIALECT])
    ELSE GetType(db_field_types, "")

\* db_field_types.get(self.DIALECT) or db_field_types.get("")
m2m_forward_type(self_, db_field_types) ==
    Or(GetType(db_field_types, self_.DIALECT), GetType(db_field_types, ""))

\* (variant: no SQLite exception)
column_unique_any_dialect(self_, fd, modify) ==
    IF modify
    THEN S("")
    ELSE IF Get(fd, "unique", FALSE) THEN S("UNIQUE") ELSE S("")

\* the unique argument of _add_or_modify_column
column_unique(self_, fd, modify) ==
    IF modify
    THEN S("")
    ELSE IF Get(fd, "unique", FALSE) /\ self_.DIALECT # SQLITE_DIALECT
         THEN S("UNIQUE")
         ELSE S("")

\* the template of _add_or_modify_column
column_template(modify) ==
    IF modify THEN MODIFY_COLUMN_TEMPLATE ELSE ADD_COLUMN_TEMPLATE

add_or_modify_column(self_, model_, fd, is_pk, modify) ==
    LET db_table       == model_.db_table
        description    == Get(fd, "description", None)
        db_column      == Get(fd, "db_column", None)
        db_field_types == Get(fd, "db_field_types", None)
        d              == get_default(self_, model_, fd)
        default        == IF d.value = None THEN S("") ELSE d.value
        unique         == column_unique(self_, fd, modify)
        template       == column_template(modify)
        comment        == IF Truthy(description)
                          THEN column_comment_generator(db_table, db_column, description)
                          ELSE S("")
        methods        == d.consulted \cup {"_create_string"}
                            \cup (IF Truthy(description)
                                  THEN {"_column_comment_generator"} ELSE {})
    IN  IF d.raised # NoException
        THEN Raise(d.raised, d.consulted, d.field_describe)
        ELSE Return(
               Statement(template,
                 [table_name |-> db_table,
                  column |-> create_string(
                               db_column,
                               column_field_type(self_, db_field_types),
                               IF ~Get(fd, "nullable", FALSE) THEN S("NOT NULL") ELSE S(""),
                               unique, comment, is_pk, default)]),
               methods, d.field_describe)

add_column(self_, model_, fd, is_pk) ==
    add_or_modify_column(self_, model_, fd, is_pk, FALSE)

modify_column(self_, model_, fd, is_pk) ==
    add_or_modify_column(self_, model_, fd, is_pk, TRUE)

\* "SET" + default if default is not None else "DROP DEFAULT"
alter_default_clause(default) ==
    IF default # None THEN <<"SET">> \o default.v ELSE <<"DROP DEFAULT">>

alter_column_default(self_, model_, fd) ==
    LET db_table == model_.db_table
        d        == get_default(self_, model_, fd)
    IN  IF d.raised # NoException
        THEN Raise(d.raised, d.consulted, d.field_describe)
        ELSE Return(
               Statement(ALTER_DEFAULT_TEMPLATE,
                 [table_name |-> db_table,
                  column |-> Get(fd, "db_column", None),
                  default |-> alter_default_clause(d.value)]),
               d.consulted, d.field_describe)

alter_column_null(self_, model_, fd) == modify_column(self_, model_, fd, FALSE)

\* (variant: the comment is set by re-adding the column)
set_comment_as_add(self_, model_, fd) == add_column(self_, model_, fd, FALSE)

set_comment(self_, model_, fd) == modify_column(self_, model_, fd, FALSE)

create_table(self_, model_, fd) ==
    Return(rstrip(get_table_sql(model_), ";"), {"_get_table_sql"}, fd)

drop_table(table_name, fd) ==
    Return(Statement(DROP_TABLE_TEMPLATE, [table_name |-> table_name]), {}, fd)

drop_m2m(table_name, fd) ==
    Return(Statement(DROP_TABLE_TEMPLATE, [table_name |-> table_name]), {}, fd)

create_m2m(self_, model_, fd, ref) ==
    LET through        == Get(fd, "through", None)
        description    == Get(fd, "description", None)
        pk_field       == Get(ref, "pk_field", None)
        reference_id   == Get(pk_field, "db_column", None)
        db_field_types == Get(pk_field, "db_field_types", None)
    IN  Return(
          Statement(M2M_TABLE_TEMPLATE,
            [table_name     |-> through,
             backward_table |-> model_.db_table,
             forward_table  |-> Get(ref, "table", None),
             backward_field |-> model_.db_pk_column,
             forward_field  |-> reference_id,
             backward_key   |-> Get(fd, "backward_key", None),
             backward_type  |-> get_for_dialect(model_, self_.DIALECT),
             forward_key    |-> Get(fd, "forward_key", None),
             forward_type   |-> Format(m2m_forward_type(self_, db_field_types)),
             on_delete      |-> Get(fd, "on_delete", None),
             extra          |-> Format(table_generate_extra(through)),
             comment        |-> Format(IF Truthy(description)
                                       THEN table_comment_generator(through, description)
                                       ELSE S(""))]),
          {"_table_generate_extra"}
            \cup (IF Truthy(description) THEN {"_table_comment_generator"} ELSE {}),
          fd)

drop_column(model_, column_name, fd) ==
    Return(Statement(DROP_COLUMN_TEMPLATE,
             [table_name |-> model_.db_table, column_name |-> column_name]), {}, fd)

rename_column(model_, old_column_name, new_column_name, fd) ==
    Return(Statement(RENAME_COLUMN_TEMPLATE,
             [table_name |-> model_.db_table, old_column_name |-> old_column_name,
              new_column_name |-> new_column_name]), {}, fd)

change_column(model_, old_column_name, new_column_name, new_column_type, fd) ==
    Return(Statement(CHANGE_COLUMN_TEMPLATE,
             [table_name |-> model_.db_table, old_column_name |-> old_column_name,
              new_column_name |-> new_column_name,
              new_column_type |-> new_column_type]), {}, fd)

\* "idx" if not unique else "uid"
index_prefix(unique) == IF ~unique THEN "idx" ELSE "uid"

\* (variant: drop_index always asks for a plain index name)
drop_index_prefix_idx(unique) == "idx"

\* the prefix drop_index asks a name for
drop_index_prefix(unique) == IF ~unique THEN "idx" ELSE "uid"

\* ", ".join(quote(f) for f in field_names)
RECURSIVE join_quoted(_)
join_quoted(field_names) ==
    IF field_names = << >> THEN << >>
    ELSE IF Len(field_names) = 1 THEN quote(field_names[1])
    ELSE quote(field_names[1]) \o <<", ">> \o join_quoted(Tail(field_names))

add_index(self_, model_, field_names, unique, fd) ==
    Return(Statement(ADD_INDEX_TEMPLATE,
             [unique |-> IF unique THEN "UNIQUE " ELSE "",
              index_name |-> generate_index_name(index_prefix(unique), model_, field_names),
              table_name |-> model_.db_table,
              column_names |-> join_quoted(field_names)]),
           {"_generate_index_name", "quote"}, fd)

drop_index(self_, model_, field_names, unique, fd) ==
    Return(Statement(DROP_INDEX_TEMPLATE,
             [index_name |-> generate_index_name(drop_index_prefix(unique), model_,
                                                 field_names),
              table_name |-> model_.db_table]),
           {"_generate_index_name"}, fd)

drop_index_by_name(model_, index_name, fd) ==
    Return(Statement(DROP_INDEX_TEMPLATE,
             [index_name |-> <<index_name>>, table_name |-> model_.db_table]), {}, fd)

generate_fk_name(db_table, fd, ref) ==
    LET db_column == Get(fd, "raw_field", None)
        pk_field  == Get(ref, "pk_field", None)
        to_field  == Get(pk_field, "db_column", None)
        to_table  == Get(ref, "table", None)
    IN  sg_generate_fk_name(db_table, db_column, to_table, to_field)

\* the name drop_fk embeds
drop_fk_name(db_table, fd, ref) == generate_fk_name(db_table, fd, ref)

add_fk(self_, model_, fd, ref) ==
    LET db_table     == model_.db_table
        db_column    == Get(fd, "raw_field", None)
        pk_field     == Get(ref, "pk_field", None)
        reference_id == Get(pk_field, "db_column", None)
    IN  Return(Statement(ADD_FK_TEMPLATE,
                 [table_name |-> db_table,
                  fk_name    |-> generate_fk_name(db_table, fd, ref),
                  db_column  |-> db_column,
                  table      |-> Get(ref, "table", None),
                  field      |-> reference_id,
                  on_delete  |-> Get(fd, "on_delete", None)]),
               {"_generate_fk_name"}, fd)

drop_fk(self_, model_, fd, ref) ==
    LET db_table == model_.db_table
        fk_name  == drop_fk_name(db_table, fd, ref)
    IN  Return(Statement(DROP_FK_TEMPLATE, [table_name |-> db_table, fk_name |-> fk_name]),
               {"_generate_fk_name"}, fd)

rename_table(model_, old_table_name, new_table_name, fd) ==
    Return(Statement(RENAME_TABLE_TEMPLATE,
             [table_name |-> model_.db_table, old_table_name |-> old_table_name,
              new_table_name |-> new_table_name]), {}, fd)

----------------------------------------------------------------------------
(* The caller's objects.  A behaviour is one compiler instance serving one *)
(* schema change: Init draws the instance, the model, the descriptors and  *)
(* the index (field_names, unique) the change is about; the actions are    *)
(* the calls the caller may make on them, in any order.                    *)

MaxFieldNames == 2

Dialects == {DIALECT, "postgres", SQLITE_DIALECT}

SchemaGenerators == [unsupported : {"none", "escape", "render"}]

Models == {[db_table |-> "user", db_pk_column |-> "id", pk |-> ("" :> "INT")]}

FieldTypes == {"UUIDField", "TextField", "JSONField", "CharField"}

Defaults == {None, S(""), S("a"), Enum("Status.ACTIVE"), Enum("Status.NONE"),
             Function("<function uuid4>")}

\* the auto_now_add / auto_now keys a descriptor carries (none, or both)
AutoFlags ==
    { [k \in {} |-> FALSE],
      ("auto_now_add" :> TRUE) @@ ("auto_now" :> FALSE),
      ("auto_now_add" :> FALSE) @@ ("auto_now" :> TRUE) }

Descriptions == {None, S(""), S("login")}

\* dialect -> SQL type; the "" key is the fallback
TypeMaps ==
    { [k \in {} |-> ""],
      ("" :> "VARCHAR(20)"),
      ("" :> "CHAR(36)") @@ ("postgres" :> "UUID"),
      ("postgres" :> "UUID"),
      ("" :> "JSON") @@ ("sql" :> "LONGTEXT") @@ ("sqlite" :> "TEXT") }

Columns == {"a", "b", "c"}

\* ordered lists of distinct columns, up to MaxFieldNames long
FieldNameLists ==
    { s \in UNION { [1..n -> Columns] : n \in 1..MaxFieldNames } :
        \A i, j \in DOMAIN s : i # j => s[i] # s[j] }

TableNames == {"user_old", "user_new"}

ColumnNames == {"email", "mail"}

FieldDescriptor(field_type, default, flags, unique, nullable, description, types) ==
    [db_column |-> "email", field_type |-> field_type, db_field_types |-> types,
     nullable |-> nullable, unique |-> unique, default |-> default,
     description |-> description, raw_field |-> "owner_id", through |-> "user_group",
     backward_key |-> "user_id", forward_key |-> "group_id", on_delete |-> "CASCADE"]
    @@ flags

ReferenceTable(types) ==
    [table |-> "group", pk_field |-> [db_column |-> "id", db_field_types |-> types]]

Index(field_names, unique) == [field_names |-> field_names, unique |-> unique]

\* descriptors that differ in what default resolution reads
DefaultScenarios ==
    { [self |-> [DIALECT |-> dialect, schema_generator |-> sg],
       field_describe |-> FieldDescriptor(ft, d, fl, TRUE, FALSE, None, ("" :> "VARCHAR(20)")),
       reference_table_describe |-> ReferenceTable(("" :> "INT")),
       index |-> Index(<<"a", "b">>, FALSE)] :
      dialect \in Dialects, sg \in SchemaGenerators, ft \in FieldTypes, d \in Defaults,
      fl \in AutoFlags }

\* descriptors that differ in what the column fragment reads, on every dialect
ColumnScenarios ==
    { [self |-> [DIALECT |-> dialect, schema_generator |-> [unsupported |-> "none"]],
       field_describe |-> FieldDescriptor("CharField", S("a"), [k \in {} |-> FALSE], u, n, c, ty),
       reference_table_describe |-> ReferenceTable(ty),
       index |-> Index(<<"a", "b">>, FALSE)] :
      dialect \in Dialects, u \in BOOLEAN, n \in BOOLEAN, c \in Descriptions,
      ty \in TypeMaps }

\* indexes that differ in what index naming reads
IndexScenarios ==
    { [self |-> [DIALECT |-> DIALECT, schema_generator |-> [unsupported |-> "none"]],
       field_describe |-> FieldDescriptor("CharField", None, [k \in {} |-> FALSE], FALSE, FALSE,
                                          None, ("" :> "VARCHAR(20)")),
       reference_table_describe |-> ReferenceTable(("" :> "INT")),
       index |-> Index(field_names, unique)] :
      field_names \in FieldNameLists, unique \in BOOLEAN }

Scenarios == DefaultScenarios \cup ColumnScenarios \cup IndexScenarios

NoArgs == [is_pk |-> FALSE, names |-> << >>]

NoResult == [raised |-> NoException, value |-> None]

\* issued: the names the caller has been handed so far (the index name the
\* last add_index embedded, the foreign-key name the last add_fk embedded);
\* << >> until there is one

Init ==
    /\ \E sc \in Scenarios :
         /\ self = sc.self
         /\ field_describe = sc.field_describe
         /\ reference_table_describe = sc.reference_table_describe
         /\ index = sc.index
    /\ model \in Models
    /\ op = "__init__"
    /\ args = NoArgs
    /\ result = NoResult
    /\ consulted = {}
    /\ issued = [index |-> << >>, fk |-> << >>]

\* a call returns (or raises): the caller sees the outcome, and the descriptor
\* is whatever the call left in it
Call(name, a, r) ==
    /\ op' = name
    /\ args' = a
    /\ result' = [raised |-> r.raised, value |-> r.value]
    /\ consulted' = r.consulted
    /\ field_describe' = r.field_describe
    /\ UNCHANGED <<self, model, reference_table_describe, index>>

CreateTable ==
    /\ Call("create_table", NoArgs, create_table(self, model, field_describe))
    /\ UNCHANGED issued

DropTable ==
    /\ \E table_name \in TableNames :
         Call("drop_table", [NoArgs EXCEPT !.names = <<table_name>>],
              drop_table(table_name, field_describe))
    /\ UNCHANGED issued

CreateM2M ==
    /\ Call("create_m2m", NoArgs,
            create_m2m(self, model, field_describe, reference_table_describe))
    /\ UNCHANGED issued

DropM2M ==
    /\ \E table_name \in TableNames :
         Call("drop_m2m", [NoArgs EXCEPT !.names = <<table_name>>],
              drop_m2m(table_name, field_describe))
    /\ UNCHANGED issued

AddColumn ==
    /\ \E is_pk \in BOOLEAN :
         Call("add_column", [NoArgs EXCEPT !.is_pk = is_pk],
              add_column(self, model, field_describe, is_pk))
    /\ UNCHANGED issued

DropColumn ==
    /\ \E column_name \in ColumnNames :
         Call("drop_column", [NoArgs EXCEPT !.names = <<column_name>>],
              drop_column(model, column_name, field_describe))
    /\ UNCHANGED issued

ModifyColumn ==
    /\ \E is_pk \in BOOLEAN :
         Call("modify_column", [NoArgs EXCEPT !.is_pk = is_pk],
              modify_column(self, model, field_describe, is_pk))
    /\ UNCHANGED issued

RenameColumn ==
    /\ \E old \in ColumnNames, new \in ColumnNames :
         /\ old # new
         /\ Call("rename_column", [NoArgs EXCEPT !.names = <<old, new>>],
                 rename_column(model, old, new, field_describe))
    /\ UNCHANGED issued

ChangeColumn ==
    /\ \E old \in ColumnNames, new \in ColumnNames :
         /\ old # new
         /\ Call("change_column", [NoArgs EXCEPT !.names = <<old, new, "INT">>],
                 change_column(model, old, new, "INT", field_describe))
    /\ UNCHANGED issued

AddIndex ==
    LET r == add_index(self, model, index.field_names, index.unique, field_describe)
    IN  /\ Call("add_index", NoArgs, r)
        /\ issued' = [issued EXCEPT !.index = <<r.value.kwargs.index_name>>]

DropIndex ==
    /\ Call("drop_index", NoArgs,
            drop_index(self, model, index.field_names, index.unique, field_describe))
    /\ UNCHANGED issued

DropIndexByName ==
    /\ \E index_name \in {"idx_legacy"} :
         Call("drop_index_by_name", [NoArgs EXCEPT !.names = <<index_name>>],
              drop_index_by_name(model, index_name, field_describe))
    /\ UNCHANGED issued

AddFk ==
    LET r == add_fk(self, model, field_describe, reference_table_describe)
    IN  /\ Call("add_fk", NoArgs, r)
        /\ issued' = [issued EXCEPT !.fk = <<r.value.kwargs.fk_name>>]

DropFk ==
    /\ Call("drop_fk", NoArgs,
            drop_fk(self, model, field_describe, reference_table_describe))
    /\ UNCHANGED issued

AlterColumnDefault ==
    /\ Call("alter_column_default", NoArgs,
            alter_column_default(self, model, field_describe))
    /\ UNCHANGED issued

AlterColumnNull ==
    /\ Call("alter_column_null", NoArgs, alter_column_null(self, model, field_describe))
    /\ UNCHANGED issued

SetComment ==
    /\ Call("set_comment", NoArgs, set_comment(self, model, field_describe))
    /\ UNCHANGED issued

RenameTable ==
    /\ \E old \in TableNames, new \in TableNames :
         /\ old # new
         /\ Call("rename_table", [NoArgs EXCEPT !.names = <<old, new>>],
                 rename_table(model, old, new, field_describe))
    /\ UNCHANGED issued

Next ==
    \/ CreateTable
    \/ DropTable
    \/ CreateM2M
    \/ DropM2M
    \/ AddColumn
    \/ DropColumn
    \/ ModifyColumn
    \/ RenameColumn
    \/ ChangeColumn
    \/ AddIndex
    \/ DropIndex
    \/ DropIndexByName
    \/ AddFk
    \/ DropFk
    \/ AlterColumnDefault
    \/ AlterColumnNull
    \/ SetComment
    \/ RenameTable

Spec == Init /\ [][Next]_vars

----------------------------------------------------------------------------
(* Properties *)

ColumnOps == {"add_column", "modify_column", "alter_column_null", "set_comment"}

DefaultRenderers == {"_escape_default_value", "_column_default_generator"}

Returned == result.raised = NoException

\* the descriptor's default with an Enum member replaced by its value
ResolvedDefault ==
    LET d == field_describe["default"]
    IN  IF d.t = "Enum" THEN (IF d.v = <<"Status.NONE">> THEN None ELSE S("active")) ELSE d

AutoNowAdd == "auto_now_add" \in DOMAIN field_describe /\ field_describe["auto_now_add"]

AutoNow == "auto_now" \in DOMAIN field_describe /\ field_describe["auto_now"]

\* the field cannot carry a literal default: its type is one of the three,
\* or the default is a default-function marker
NotRepresentable ==
    \/ field_describe["field_type"] \in {"UUIDField", "TextField", "JSONField"}
    \/ ResolvedDefault.t = "function"

\* C1: alter_column_default returns ALTER ... DROP DEFAULT when resolution
\* yields no usable default (None, or the empty string), and otherwise
\* ALTER ... SET<default> with a non-empty fragment; it never returns a SET
\* with nothing after it.
C1_AlterDefaultSetOrDrop ==
    op = "alter_column_default" =>
        /\ Returned
        /\ result.value.template = ALTER_DEFAULT_TEMPLATE
        /\ result.value.kwargs.table_name = model.db_table
        /\ result.value.kwargs.column = field_describe["db_column"]
        /\ LET clause  == result.value.kwargs.default
               default == get_default(self, model, field_describe).value
           IN  IF default = None \/ default = S("")
               THEN clause = <<"DROP DEFAULT">>
               ELSE /\ Len(clause) > 1
                    /\ clause = <<"SET">> \o default.v

\* C2: default resolution returns None iff the default, after an Enum member
\* was replaced by its value, is None and auto_now_add is false (auto_now
\* alone creates no default); in every other case it returns a str.  Seen
\* both on _get_default itself and on alter_column_default, which branches
\* on it.
C2_NoDefaultIffAbsent ==
    LET d      == get_default(self, model, field_describe)
        absent == ResolvedDefault = None /\ ~AutoNowAdd
    IN  /\ d.raised = NoException
        /\ (d.value = None) <=> absent
        /\ ~absent => d.value.t = "str"
        /\ (op = "alter_column_default" /\ Returned) =>
             ((result.value.kwargs.default = <<"DROP DEFAULT">>) <=> absent)

C2_Witness ==
    /\ op = "alter_column_default"
    /\ field_describe["default"] = Enum("Status.NONE")
    /\ AutoNow
    /\ result.value.kwargs.default = <<"DROP DEFAULT">>

\* C3: when the default (after Enum substitution) is set or auto_now_add is
\* true, and the field type is UUIDField, TextField or JSONField or the
\* default is a default-function marker, resolution yields "" without
\* consulting the Introspector's default renderers, and add_column /
\* modify_column hand an empty default to _create_string, on every dialect.
C3_NonLiteralDefaultOmitted ==
    ((ResolvedDefault # None \/ AutoNowAdd) /\ NotRepresentable) =>
        LET d == get_default(self, model, field_describe)
        IN  /\ d.raised = NoException
            /\ d.value = S("")
            /\ d.consulted \cap DefaultRenderers = {}
            /\ op \in ColumnOps =>
                 /\ Returned
                 /\ result.value.kwargs.column.default = << >>
                 /\ consulted \cap DefaultRenderers = {}

C3_Witness ==
    /\ op = "add_column"
    /\ field_describe["field_type"] = "JSONField"
    /\ field_describe["default"] = S("a")
    /\ self.DIALECT = "postgres"
    /\ self.schema_generator.unsupported = "none"
    /\ Returned
    /\ result.value.kwargs.column.default = << >>

\* C4: when the Introspector raises NotImplementedError while escaping or
\* rendering the default, resolution yields "": add_column, modify_column
\* and alter_column_default (and the two that reduce to modify_column) still
\* return a statement, with an empty default, and nothing is propagated.
C4_UnsupportedDefaultRecovered ==
    /\ Returned
    /\ (self.schema_generator.unsupported # "none"
        /\ (ResolvedDefault # None \/ AutoNowAdd) /\ ~NotRepresentable) =>
          /\ get_default(self, model, field_describe).raised = NoException
          /\ get_default(self, model, field_describe).value = S("")
          /\ op \in ColumnOps =>
               /\ result.value.template \in {ADD_COLUMN_TEMPLATE, MODIFY_COLUMN_TEMPLATE}
               /\ result.value.kwargs.column.default = << >>
               /\ "_escape_default_value" \in consulted
          /\ op = "alter_column_default" =>
               /\ result.value.template = ALTER_DEFAULT_TEMPLATE
               /\ "_escape_default_value" \in consulted

C4_Witness ==
    /\ op = "add_column"
    /\ self.schema_generator.unsupported = "render"
    /\ "_column_default_generator" \in consulted
    /\ Returned
    /\ result.value.template = ADD_COLUMN_TEMPLATE
    /\ result.value.kwargs.column.default = << >>

\* C5: the unique argument handed to _create_string is "UNIQUE" iff the
\* operation is add_column, the descriptor has unique=true and the dialect
\* is not SQLite; modify_column, alter_column_null and set_comment never pass
\* UNIQUE and use the MODIFY COLUMN template, add_column the ADD template.
C5_UniqueOnlyOnAddOutsideSqlite ==
    (op \in ColumnOps /\ Returned) =>
        LET unique == result.value.kwargs.column.unique
        IN  /\ unique \in {<<"UNIQUE">>, << >>}
            /\ (unique = <<"UNIQUE">>) <=>
                 (op = "add_column" /\ field_describe["unique"] /\ self.DIALECT # "sqlite")
            /\ result.value.template =
                 IF op = "add_column" THEN ADD_COLUMN_TEMPLATE ELSE MODIFY_COLUMN_TEMPLATE

C5_Witness ==
    /\ op = "add_column"
    /\ self.DIALECT = "sqlite"
    /\ field_describe["unique"]
    /\ Returned
    /\ result.value.kwargs.column.unique = << >>

\* C6: when db_field_types has neither an entry for the dialect nor one
\* under "", add_column / modify_column (and create_m2m, for the referenced
\* primary key) fail with an error and return no SQL.
C6_MissingTypeFails ==
    /\ (op \in ColumnOps
        /\ DOMAIN field_describe["db_field_types"] \cap {self.DIALECT, ""} = {})
         => ~Returned
    /\ (op = "create_m2m"
        /\ DOMAIN reference_table_describe.pk_field.db_field_types
             \cap {self.DIALECT, ""} = {})
         => ~Returned

\* the dbFieldTypes entry for the dialect when one exists, else the one under ""
ExpectedType(types, dialect) ==
    IF dialect \in DOMAIN types THEN <<types[dialect]>> ELSE <<types[""]>>

\* C7: the SQL type of a column is the db_field_types entry for the dialect
\* when one exists and otherwise the entry under ""; with only the "" key
\* every dialect's compiler resolves the same type, in add_column /
\* modify_column and for the forward type of create_m2m.
C7_DialectTypeElseFallback ==
    LET types    == field_describe["db_field_types"]
        pk_types == reference_table_describe.pk_field.db_field_types
    IN  /\ (op \in ColumnOps /\ DOMAIN types \cap {self.DIALECT, ""} # {}) =>
             result.value.kwargs.column.field_type = ExpectedType(types, self.DIALECT)
        /\ (op = "create_m2m" /\ DOMAIN pk_types \cap {self.DIALECT, ""} # {}) =>
             result.value.kwargs.forward_type = ExpectedType(pk_types, self.DIALECT)
        /\ DOMAIN types = {""} =>
             \A dialect \in Dialects :
                LET other == [self EXCEPT !.DIALECT = dialect]
                IN  /\ add_column(other, model, field_describe, FALSE)
                          .value.kwargs.column.field_type = <<types[""]>>
                    /\ modify_column(other, model, field_describe, FALSE)
                          .value.kwargs.column.field_type = <<types[""]>>
                    /\ create_m2m(other, model, field_describe, reference_table_describe)
                          .value.kwargs.forward_type = <<pk_types[""]>>

C7_Witness ==
    /\ op = "create_m2m"
    /\ self.DIALECT = "postgres"
    /\ DOMAIN reference_table_describe.pk_field.db_field_types = {"", "postgres"}
    /\ result.value.kwargs.forward_type = <<"UUID">>

\* C8: names are recomputed, never stored: a drop_index embeds the index name
\* the earlier add_index embedded for the same model, field list and unique
\* flag (kind "uid" iff unique, else "idx"), and a drop_fk the foreign-key
\* name the earlier add_fk embedded, whatever was called in between.
C8_SameNameOnAddAndDrop ==
    /\ op = "add_index" =>
         /\ result.value.kwargs.index_name =
              <<IF index.unique THEN "uid" ELSE "idx", model.db_table>> \o index.field_names
         /\ issued.index = <<result.value.kwargs.index_name>>
    /\ (op = "drop_index" /\ issued.index # << >>) =>
         result.value.kwargs.index_name = issued.index[1]
    /\ op = "add_fk" =>
         /\ result.value.kwargs.fk_name =
              <<"fk", model.db_table, field_describe["raw_field"],
                reference_table_describe.table,
                reference_table_describe.pk_field.db_column>>
         /\ issued.fk = <<result.value.kwargs.fk_name>>
    /\ (op = "drop_fk" /\ issued.fk # << >>) =>
         result.value.kwargs.fk_name = issued.fk[1]

C8_Witness ==
    /\ op = "drop_index"
    /\ index.unique
    /\ Len(index.field_names) = 2
    /\ issued.index # << >>
    /\ issued.fk # << >>
    /\ result.value.kwargs.index_name = issued.index[1]

\* C9: alter_column_null and set_comment return exactly the statement
\* modify_column returns for the same model and descriptor with is_pk=false.
C9_NullAndCommentAreModify ==
    op \in {"alter_column_null", "set_comment"} =>
        LET m == modify_column(self, model, field_describe, FALSE)
        IN  /\ result = [raised |-> m.raised, value |-> m.value]
            /\ consulted = m.consulted
            /\ Returned
            /\ result.value.template = MODIFY_COLUMN_TEMPLATE
            /\ result.value.kwargs.column.is_primary_key = FALSE

C9_Witness ==
    /\ op = "set_comment"
    /\ field_describe["description"] = S("login")
    /\ field_describe["unique"]
    /\ Returned
    /\ result.value.kwargs.column.comment # << >>
    /\ result.value.kwargs.column.unique = << >>

\* C10: every operation is stateless and read-only: a call leaves the field
\* descriptor, the referenced-table descriptor, the model and the compiler
\* (dialect tag, Introspector) as they were, a call repeated with the same
\* inputs returns the same statement, and an add_index / add_fk embeds the
\* name the last one embedded, whatever was called in between.
C10_StatelessReadOnly ==
    [][/\ field_describe' = field_describe
       /\ reference_table_describe' = reference_table_describe
       /\ model' = model
       /\ self' = self
       /\ (op' = op /\ args' = args) => (result' = result /\ consulted' = consulted)
       /\ (op' = "add_index" /\ issued.index # << >>) =>
            result'.value.kwargs.index_name = issued.index[1]
       /\ (op' = "add_fk" /\ issued.fk # << >>) =>
            result'.value.kwargs.fk_name = issued.fk[1]]_vars

C10_Witness ==
    /\ op = "alter_column_default"
    /\ field_describe["default"] = Enum("Status.ACTIVE")
    /\ field_describe["field_type"] = "CharField"
    /\ issued.index # << >>
    /\ result.value.kwargs.default = <<"SET", " DEFAULT ", "'", "active", "'">>

====
